---- MODULE Spec2Model ----
(***************************************************************************)
(* The ad-hoc tabular query engine of the Akave AI Hub backend:            *)
(* QueryController.executeQuery and the read handlers (queryController.ts),*)
(* QueryService (executeQuery, loadDatasetIntoDatabase, the singleton      *)
(* in-memory SQLite workspace) and the query_results table of              *)
(* DatabaseService.  Every call of the submission handler is a process     *)
(* that advances from one await to the next; the code between two awaits   *)
(* runs atomically (Node's cooperative scheduling).                        *)
(***************************************************************************)
EXTENDS Integers, Sequences, FiniteSets, TLC

(***************************************************************************)
(* Bounds of the model.                                                    *)
(***************************************************************************)
\* the last reading of the clock
MaxTime == 1

(***************************************************************************)
(* Values.  Strings are TLA+ strings; a text that the code splits is kept  *)
(* as the sequence of its pieces.                                          *)
(***************************************************************************)
\* JS undefined / SQL NULL in a string-valued place
NULL == "<null>"
\* JS undefined / SQL NULL in a number-valued place
NoInt == 0 - 1

\* the authenticated users (req.user.id), and the falsy id
Users == {"u1", "u2"}
NoUser == ""

\* the two concurrent calls of the submission handler, and the uuid each draws
Procs == {"p1", "p2"}
QueryIds == {"q-p1", "q-p2"}

DatasetIds == {"d1", "d2", "d3", "d4", "d5", "d6"}
TableNames == {"dataset_1", "dataset_2"}

(***************************************************************************)
(* JS values of the result payload and of the column list.                 *)
(***************************************************************************)
Undefined == [kind |-> "undefined", columns |-> <<>>, rows |-> <<>>]
\* an array of row objects keyed by `columns` (the empty array has no keys)
RowObjects(columns, rows) == [kind |-> "array", columns |-> columns, rows |-> rows]
\* an array of strings
StringList(items) == [kind |-> "array", columns |-> <<>>, rows |-> items]
\* a string, kept as its lines
JsString(lines) == [kind |-> "string", columns |-> <<>>, rows |-> lines]
\* the object {columns, rows}
TableObject(columns, rows) == [kind |-> "object", columns |-> columns, rows |-> rows]

(***************************************************************************)
(* A TEXT column of query_results holds NULL, the JSON text of a value, or *)
(* a string bound as it is.                                                *)
(***************************************************************************)
SqlNull == [enc |-> "null", v |-> Undefined]
JSONstringify(value) == [enc |-> "json", v |-> value]
RawText(value) == [enc |-> "raw", v |-> value]

\* JS truthiness of a value read from a TEXT column: NULL and '' are falsy
Truthy(text) ==
    /\ text.enc # "null"
    /\ ~(text.enc = "raw" /\ text.v.rows = <<>>)

\* whether JSON.parse accepts the text.  A raw string of the model is a
\* delimited text: header line, line break, quoted fields.  It ends in a
\* double quote and holds a raw line break, so it is no JSON text.
JSONparseOk(text) == text.enc = "json"
JSONparse(text) == text.v
SyntaxErrorMessage == "Unexpected token in JSON"

(***************************************************************************)
(* The manifests table and the object store behind it.                     *)
(***************************************************************************)
NoManifest == [id |-> NULL, filename |-> NULL, userId |-> NULL, s3Key |-> NULL]
Manifest(id, filename, userId, s3Key) ==
    [id |-> id, filename |-> filename, userId |-> userId, s3Key |-> s3Key]

\* the manifests after five uploads: d1, d3, d5 and d6 by u1, d2 by u2 under
\* the same file name as d1; d4 names no manifest
InitManifests ==
    [d \in DatasetIds |->
        CASE d = "d1" -> Manifest("d1", "a.csv", "u1", "k1")
          [] d = "d2" -> Manifest("d2", "a.csv", "u2", "k2")
          [] d = "d3" -> Manifest("d3", "b.csv", "u1", "k3")
          [] d = "d5" -> Manifest("d5", "c.csv", "u1", "k5")
          [] d = "d6" -> Manifest("d6", "e.csv", "u1", "k6")
          [] OTHER    -> NoManifest]

\* the bytes of each stored object: its lines, each split at the commas; k5
\* is a header without data lines, k6 has two headers that differ in one
\* character only
ObjectContent(s3Key) ==
    CASE s3Key = "k1" -> << <<"a">>, <<"x1">> >>
      [] s3Key = "k2" -> << <<"a">>, <<"\"y1\"">> >>
      [] s3Key = "k3" -> << <<"b-c">>, <<"z1">>, <<"z2">> >>
      [] s3Key = "k5" -> << <<"a">> >>
      [] s3Key = "k6" -> << <<"b-c", "b_c">>, <<"z1", "z2">> >>
      [] OTHER        -> << >>

FileNames == {"a.csv", "b.csv", "c.csv", "e.csv"}
NoFile == << <<NULL>> >>


(***************************************************************************)
(* Small sequence helpers.                                                 *)
(***************************************************************************)
Range(s) == {s[k] : k \in 1..Len(s)}
HasDuplicates(s) == \E a, b \in 1..Len(s) : a # b /\ s[a] = s[b]
FirstIndex(s, x) == CHOOSE k \in 1..Len(s) : s[k] = x /\ \A m \in 1..(k - 1) : s[m] # x
Prefix(s, n) == SubSeq(s, 1, IF n < Len(s) THEN n ELSE Len(s))

(***************************************************************************)
(* Tabular loader: the text handling of loadDatasetIntoDatabase.           *)
(***************************************************************************)
\* csvContent.trim().split('\n'), each line then split(','): the empty text
\* is one line of one empty field
SplitLines(content) == IF content = << >> THEN << <<"">> >> ELSE content

\* v.trim().replace(/"/g, '') on the fields of the stored objects
CleanField(f) ==
    CASE f = "\"y1\"" -> "y1"
      [] OTHER        -> f

\* h.replace(/[^a-zA-Z0-9_]/g, '_') on the header fields of the stored objects
SanitizeHeader(h) ==
    CASE h = "b-c" -> "b_c"
      [] OTHER     -> h

CleanLine(line) == [k \in 1..Len(line) |-> CleanField(line[k])]
Headers(content) == CleanLine(SplitLines(content)[1])
SanitizedHeaders(content) ==
    [k \in 1..Len(Headers(content)) |-> SanitizeHeader(Headers(content)[k])]

\* the data lines the insert loop keeps: values.length === headers.length
KeptLines(content) ==
    LET lines == SplitLines(content)
        n     == Len(Headers(content))
        Keep(line) == Len(line) = n
    IN  [k \in 1..Len(SelectSeq(Tail(lines), Keep)) |->
            CleanLine(SelectSeq(Tail(lines), Keep)[k])]

(***************************************************************************)
(* The in-memory SQLite workspace (QueryService.queryDatabase).            *)
(***************************************************************************)
NoTable == [exists |-> FALSE, columns |-> <<>>, rows |-> <<>>]
EmptyTables == [t \in TableNames |-> NoTable]

\* `dataset_${i + 1}` for the 0-based loop index i, given 1-based
TableNameOf(i) == "dataset_" \o ToString(i)

\* CREATE TABLE IF NOT EXISTS t ("h" TEXT, ...): nothing when t exists
CreateTableIfNotExists(tables, t, columns) ==
    IF tables[t].exists
    THEN [ok |-> TRUE, error |-> NULL, tables |-> tables]
    ELSE IF HasDuplicates(columns)
    THEN [ok |-> FALSE,
          error |-> "duplicate column name: "
                      \o (CHOOSE c \in Range(columns) :
                            \E a, b \in 1..Len(columns) : a # b /\ columns[a] = c /\ columns[b] = c),
          tables |-> tables]
    ELSE [ok |-> TRUE, error |-> NULL,
          tables |-> [tables EXCEPT ![t] =
                        [exists |-> TRUE, columns |-> columns, rows |-> <<>>]]]

\* db.prepare(INSERT INTO t ("h", ...) VALUES (?, ...)): every named column
\* must be a column of t
PrepareInsert(tables, t, columns) ==
    IF \A c \in Range(columns) : c \in Range(tables[t].columns)
    THEN [ok |-> TRUE, error |-> NULL]
    ELSE [ok |-> FALSE,
          error |-> "table " \o t \o " has no column named "
                      \o (CHOOSE c \in Range(columns) : c \notin Range(tables[t].columns))]

\* one inserted row in the column order of t: columns not named get NULL
InsertedRow(tableColumns, columns, values) ==
    [k \in 1..Len(tableColumns) |->
        IF tableColumns[k] \in Range(columns)
        THEN values[FirstIndex(columns, tableColumns[k])]
        ELSE NULL]

\* lines 112-141 of loadDatasetIntoDatabase on the text read from the temp
\* file: create the table, prepare the insert, insert the kept lines
LoadContent(tables, t, content) ==
    LET columns == SanitizedHeaders(content)
        created == CreateTableIfNotExists(tables, t, columns)
        insert  == PrepareInsert(created.tables, t, columns)
        kept    == KeptLines(content)
        newRows == [k \in 1..Len(kept) |->
                      InsertedRow(created.tables[t].columns, columns, kept[k])]
    IN  IF Len(SplitLines(content)) = 0
        THEN [ok |-> FALSE, error |-> "Dataset is empty", tables |-> tables,
              rowCount |-> 0, columns |-> <<>>, inserted |-> <<>>]
        ELSE IF ~created.ok
        THEN [ok |-> FALSE, error |-> created.error, tables |-> tables,
              rowCount |-> 0, columns |-> columns, inserted |-> <<>>]
        ELSE IF ~insert.ok
        THEN [ok |-> FALSE, error |-> insert.error, tables |-> created.tables,
              rowCount |-> 0, columns |-> columns, inserted |-> <<>>]
        ELSE [ok |-> TRUE, error |-> NULL,
              tables |-> [created.tables EXCEPT ![t].rows = @ \o newRows],
              rowCount |-> Len(kept), columns |-> columns, inserted |-> newRows]

(***************************************************************************)
(* Texts.  A query text is the sequence of its atoms: "SELECT" stands for  *)
(* `SELECT * FROM `, "LIMIT" for ` LIMIT `, "dataset_" for these eight      *)
(* characters, and every other atom is one character or a word in which no *)
(* dataset id of the model occurs.  One text occurs in another when its    *)
(* atoms do, one after the other.                                          *)
(***************************************************************************)
\* the atoms of the dataset ids and of the relation names of the model
Chars(text) ==
    CASE text = "d1" -> <<"d", "1">>
      [] text = "d2" -> <<"d", "2">>
      [] text = "d3" -> <<"d", "3">>
      [] text = "d4" -> <<"d", "4">>
      [] text = "d5" -> <<"d", "5">>
      [] text = "d6" -> <<"d", "6">>
      [] text = "dataset_1" -> <<"dataset_", "1">>
      [] text = "dataset_2" -> <<"dataset_", "2">>
      [] text = "dataset_3" -> <<"dataset_", "3">>
      [] OTHER -> <<text>>

\* the text the atoms spell
RECURSIVE Join(_)
Join(atoms) == IF atoms = <<>> THEN "" ELSE Head(atoms) \o Join(Tail(atoms))

\* `pattern` occurs in `text` at position k
OccursAt(text, k, pattern) ==
    /\ k + Len(pattern) - 1 <= Len(text)
    /\ SubSeq(text, k, k + Len(pattern) - 1) = pattern

\* text.replace(new RegExp(pattern, 'g'), replacement) from position k on:
\* the occurrences are taken from the left and do not overlap
RECURSIVE ReplaceFrom(_, _, _, _)
ReplaceFrom(text, k, pattern, replacement) ==
    IF k > Len(text)
    THEN <<>>
    ELSE IF OccursAt(text, k, pattern)
    THEN replacement \o ReplaceFrom(text, k + Len(pattern), pattern, replacement)
    ELSE <<text[k]>> \o ReplaceFrom(text, k + 1, pattern, replacement)

(***************************************************************************)
(* Namespace binder: the rewriting of the query text in executeQuery.      *)
(***************************************************************************)
\* processedQuery.replace(new RegExp(datasetId, 'g'), tableName)
ReplaceAll(query, datasetId, tableName) ==
    ReplaceFrom(query, 1, Chars(datasetId), Chars(tableName))

\* the forEach over request.datasetIds, first id first
RECURSIVE RewriteFrom(_, _, _)
RewriteFrom(query, datasetIds, index) ==
    IF index > Len(datasetIds)
    THEN query
    ELSE RewriteFrom(ReplaceAll(query, datasetIds[index], TableNameOf(index)),
                     datasetIds, index + 1)

RewriteQuery(query, datasetIds) == RewriteFrom(query, datasetIds, 1)

\* processedQuery.toLowerCase().includes('limit'): the atoms of the model in
\* which these five letters occur, in either case
IncludesLimit(query) == \E k \in 1..Len(query) : query[k] \in {"LIMIT", "limit", "Limit_"}

\* lines 188-190; request.limit is a number or undefined (NoInt), and both
\* undefined and 0 are falsy
ApplyLimit(query, limit) ==
    IF limit # NoInt /\ limit # 0 /\ ~IncludesLimit(query)
    THEN query \o <<"LIMIT", ToString(limit)>>
    ELSE query

(***************************************************************************)
(* Query executor: db.prepare(processedQuery) and stmt.all(), for the      *)
(* statements SELECT * FROM <relation> [LIMIT <n>] and, with the atom      *)
(* "COUNT" for `SELECT COUNT(1) AS n FROM `, the count of a relation.      *)
(***************************************************************************)
\* a number the engine returns, as distinct from the text of its digits
JsNumber(n) == "#" \o ToString(n)
JsNumbers == {JsNumber(n) : n \in 0..3}

LimitNumerals == {"0", "1", "2"}
NumeralValue(word) == CHOOSE n \in 0..2 : ToString(n) = word

\* where the LIMIT clause of the statement starts, or its length + 1
LimitAt(stmt) ==
    IF \E k \in 1..Len(stmt) : stmt[k] = "LIMIT"
    THEN CHOOSE k \in 1..Len(stmt) :
            stmt[k] = "LIMIT" /\ \A m \in 1..(k - 1) : stmt[m] # "LIMIT"
    ELSE Len(stmt) + 1

\* the relation the statement names
StatementTable(stmt) == Join(SubSeq(stmt, 2, LimitAt(stmt) - 1))

IsSelect(stmt) ==
    /\ Len(stmt) >= 2
    /\ stmt[1] \in {"SELECT", "COUNT"}
    /\ LimitAt(stmt) > 2
    /\ LimitAt(stmt) <= Len(stmt)
          => (Len(stmt) = LimitAt(stmt) + 1 /\ stmt[Len(stmt)] \in LimitNumerals)

ExecuteStatement(tables, stmt) ==
    IF ~IsSelect(stmt)
    THEN [ok |-> FALSE,
          error |-> IF stmt = <<>> THEN "incomplete input"
                    ELSE "near \"" \o stmt[1] \o "\": syntax error",
          columns |-> <<>>, rows |-> <<>>]
    ELSE IF StatementTable(stmt) \notin TableNames \/ ~tables[StatementTable(stmt)].exists
    THEN [ok |-> FALSE, error |-> "no such table: " \o StatementTable(stmt),
          columns |-> <<>>, rows |-> <<>>]
    ELSE LET selected == IF stmt[1] = "COUNT"
                         THEN << <<JsNumber(Len(tables[StatementTable(stmt)].rows))>> >>
                         ELSE tables[StatementTable(stmt)].rows
         IN  [ok |-> TRUE, error |-> NULL,
              columns |-> IF stmt[1] = "COUNT" THEN <<"n">>
                          ELSE tables[StatementTable(stmt)].columns,
              rows |-> IF LimitAt(stmt) <= Len(stmt)
                       THEN Prefix(selected, NumeralValue(stmt[Len(stmt)]))
                       ELSE selected]

(***************************************************************************)
(* Result formatter: lines 198-226 of executeQuery.                        *)
(***************************************************************************)
\* value || '': null, the empty text and the number 0 are falsy
OrEmpty(value) == IF value \in {NULL, "", JsNumber(0)} THEN "" ELSE value

\* `${value}`: a number is written as its digits, a text as it is
TemplateText(value) ==
    IF value \in JsNumbers
    THEN ToString(CHOOSE n \in 0..3 : JsNumber(n) = value)
    ELSE value

\* `"${row[col] || ''}"`
QuotedField(value) == "\"" \o TemplateText(OrEmpty(value)) \o "\""

\* columns = Object.keys(rows[0]) when there are rows, [] otherwise
ResultColumns(columns, rows) == IF Len(rows) > 0 THEN columns ELSE <<>>

FormatResult(columns, rows, outputFormat) ==
    IF Len(rows) > 0
    THEN CASE outputFormat = "json" -> RowObjects(columns, rows)
           [] outputFormat = "csv" ->
                JsString(<<columns>> \o
                         [k \in 1..Len(rows) |->
                            [c \in 1..Len(columns) |-> QuotedField(rows[k][c])]])
           [] OTHER -> TableObject(columns, rows)
    ELSE IF outputFormat = "csv" THEN JsString(<<>>) ELSE RowObjects(<<>>, <<>>)

(***************************************************************************)
(* Query record store: the query_results table of DatabaseService.        *)
(* createdAt is a reading of the clock in whole ticks; completedAt, which  *)
(* nothing compares, is kept as set or not; executionTime, a difference of *)
(* two readings that nothing reads back, is left out.                      *)
(***************************************************************************)
\* a QueryResult object of the service (result and columns are JS values)
NoQueryResult ==
    [id |-> NULL, query |-> <<>>, datasetIds |-> <<>>, outputFormat |-> NULL,
     status |-> NULL, result |-> Undefined, error |-> NULL, rowCount |-> NoInt,
     columns |-> Undefined, createdAt |-> NoInt, completedAt |-> NULL,
     userId |-> NULL]

\* a row of query_results (datasetIds, result and columns are TEXT)
NoRow ==
    [id |-> NULL, query |-> <<>>, datasetIds |-> SqlNull, outputFormat |-> NULL,
     status |-> NULL, result |-> SqlNull, error |-> NULL, rowCount |-> NoInt,
     columns |-> SqlNull, createdAt |-> NoInt, completedAt |-> NULL,
     userId |-> NULL]

EmptyStore == [id \in QueryIds |-> NoRow]

\* a JS value is truthy unless it is undefined or the empty string
JsTruthy(value) ==
    /\ value.kind # "undefined"
    /\ ~(value.kind = "string" /\ value.rows = <<>>)

\* typeof value === 'string' ? value : JSON.stringify(value)
BindJson(value) == IF value.kind = "string" THEN RawText(value) ELSE JSONstringify(value)

\* INSERT INTO query_results (...) VALUES (...)
createQueryResult(rows, queryResult) ==
    [rows EXCEPT ![queryResult.id] =
        [id           |-> queryResult.id,
         query        |-> queryResult.query,
         datasetIds   |-> JSONstringify(StringList(queryResult.datasetIds)),
         outputFormat |-> queryResult.outputFormat,
         status       |-> queryResult.status,
         result       |-> IF JsTruthy(queryResult.result)
                          THEN JSONstringify(queryResult.result) ELSE SqlNull,
         error        |-> queryResult.error,
         rowCount     |-> queryResult.rowCount,
         columns      |-> IF JsTruthy(queryResult.columns)
                          THEN JSONstringify(queryResult.columns) ELSE SqlNull,
         createdAt    |-> queryResult.createdAt,
         completedAt  |-> queryResult.completedAt,
         userId       |-> queryResult.userId]]

\* a SET list that would leave out the result
MergeUpdatesWithoutResult(row, updates) ==
    [id           |-> row.id,
     query        |-> updates.query,
     datasetIds   |-> JSONstringify(StringList(updates.datasetIds)),
     outputFormat |-> updates.outputFormat,
     status       |-> updates.status,
     result       |-> row.result,
     error        |-> IF updates.error # NULL THEN updates.error ELSE row.error,
     rowCount     |-> IF updates.rowCount # NoInt THEN updates.rowCount ELSE row.rowCount,
     columns      |-> IF updates.columns.kind # "undefined"
                      THEN BindJson(updates.columns) ELSE row.columns,
     createdAt    |-> IF updates.createdAt # NoInt THEN updates.createdAt ELSE row.createdAt,
     completedAt  |-> IF updates.completedAt # NULL
                      THEN updates.completedAt ELSE row.completedAt,
     userId       |-> updates.userId]

\* the SET list of updateQueryResult: every key but id whose value is not
\* undefined
MergeUpdates(row, updates) ==
    [id           |-> row.id,
     query        |-> updates.query,
     datasetIds   |-> JSONstringify(StringList(updates.datasetIds)),
     outputFormat |-> updates.outputFormat,
     status       |-> updates.status,
     result       |-> IF updates.result.kind # "undefined"
                      THEN BindJson(updates.result) ELSE row.result,
     error        |-> IF updates.error # NULL THEN updates.error ELSE row.error,
     rowCount     |-> IF updates.rowCount # NoInt THEN updates.rowCount ELSE row.rowCount,
     columns      |-> IF updates.columns.kind # "undefined"
                      THEN BindJson(updates.columns) ELSE row.columns,
     createdAt    |-> IF updates.createdAt # NoInt THEN updates.createdAt ELSE row.createdAt,
     completedAt  |-> IF updates.completedAt # NULL
                      THEN updates.completedAt ELSE row.completedAt,
     userId       |-> updates.userId]

\* "Parse JSON fields": JSON.parse of datasetIds, and of result and columns
\* when truthy; any of them may throw
ParseOk(row) ==
    /\ JSONparseOk(row.datasetIds)
    /\ Truthy(row.result) => JSONparseOk(row.result)
    /\ Truthy(row.columns) => JSONparseOk(row.columns)

\* the value read from a TEXT column that is not parsed: null or ''
Unparsed(text) == IF text.enc = "raw" THEN text.v ELSE Undefined

ParseRow(row) ==
    [id           |-> row.id,
     query        |-> row.query,
     datasetIds   |-> JSONparse(row.datasetIds).rows,
     outputFormat |-> row.outputFormat,
     status       |-> row.status,
     result       |-> IF Truthy(row.result) THEN JSONparse(row.result)
                      ELSE Unparsed(row.result),
     error        |-> row.error,
     rowCount     |-> row.rowCount,
     columns      |-> IF Truthy(row.columns) THEN JSONparse(row.columns)
                      ELSE Unparsed(row.columns),
     createdAt    |-> row.createdAt,
     completedAt  |-> row.completedAt,
     userId       |-> row.userId]

\* what a call of a reading or updating method of the store comes to
Returned(record) == [outcome |-> "record", record |-> record]
ReturnedNull == [outcome |-> "null", record |-> NoQueryResult]
Thrown == [outcome |-> "throw", record |-> NoQueryResult]

ReadBack(row) == IF ParseOk(row) THEN Returned(ParseRow(row)) ELSE Thrown

\* UPDATE query_results SET ... WHERE id = ? RETURNING *, then the parse of
\* the returned row: the row is written before the parse can throw
updateQueryResult(rows, id, updates) ==
    IF rows[id].id = NULL
    THEN [rows |-> rows, returned |-> ReturnedNull]
    ELSE [rows |-> [rows EXCEPT ![id] = MergeUpdates(rows[id], updates)],
          returned |-> ReadBack(MergeUpdates(rows[id], updates))]

\* SELECT * FROM query_results WHERE id = ? [AND userId = ?]: the owner is
\* compared only when userId is truthy
getQueryResult(rows, id, userId) ==
    IF rows[id].id = NULL \/ (userId # NoUser /\ rows[id].userId # userId)
    THEN ReturnedNull
    ELSE ReadBack(rows[id])

\* a listing without WHERE userId = ?
NewestFirstOfAll(rows, userId) ==
    LET ids == {id \in QueryIds : rows[id].id # NULL}
    IN  {s \in [1..Cardinality(ids) -> ids] :
            /\ \A a, b \in 1..Cardinality(ids) : a # b => s[a] # s[b]
            /\ \A a, b \in 1..Cardinality(ids) :
                  a < b => rows[s[a]].createdAt >= rows[s[b]].createdAt}

\* the orders ORDER BY createdAt DESC may give the rows of one user: rows
\* with equal createdAt come in either order
NewestFirst(rows, userId) ==
    LET ids == {id \in QueryIds : rows[id].id # NULL /\ rows[id].userId = userId}
    IN  {s \in [1..Cardinality(ids) -> ids] :
            /\ \A a, b \in 1..Cardinality(ids) : a # b => s[a] # s[b]
            /\ \A a, b \in 1..Cardinality(ids) :
                  a < b => rows[s[a]].createdAt >= rows[s[b]].createdAt}

\* LIMIT ? OFFSET ? of SQLite: a negative LIMIT is no limit, a negative
\* OFFSET is 0
Window(s, limit, offset) ==
    LET from == IF offset < 0 THEN 0 ELSE offset
        rest == SubSeq(s, from + 1, Len(s))
    IN  IF limit < 0 THEN rest ELSE Prefix(rest, limit)

\* SELECT * FROM query_results WHERE userId = ? ORDER BY createdAt DESC
\* LIMIT ? OFFSET ?, then the parse of every row: the results it may give
listQueryResults(rows, userId, limit, offset) ==
    {LET w == Window(s, limit, offset)
     IN  IF \A k \in 1..Len(w) : ParseOk(rows[w[k]])
         THEN [outcome |-> "records", records |-> [k \in 1..Len(w) |-> ParseRow(rows[w[k]])]]
         ELSE [outcome |-> "throw", records |-> <<>>]
     : s \in NewestFirst(rows, userId)}

\* SELECT * FROM manifests WHERE id = ?
getManifestById(table, id) == IF id \in DatasetIds THEN table[id] ELSE NoManifest

\* SELECT * FROM manifests WHERE userId = ? ORDER BY uploadedAt DESC LIMIT 100
\* (fewer than 100 manifests exist): the manifests listed, as a set
listManifestsByUser(table, userId) ==
    {table[d] : d \in {x \in DatasetIds : table[x].id # NULL /\ table[x].userId = userId}}

\* QueryService.getStructuredDatasets: the manifests of the user, field by field
getStructuredDatasets(table, userId) == listManifestsByUser(table, userId)

(***************************************************************************)
(* The requests of the model.                                              *)
(***************************************************************************)
\* a body of POST /execute; isArray is Array.isArray(datasetIds), limit is
\* NoInt when none is given, an absent query is the empty text
Body(query, datasetIds, isArray, outputFormat, limit) ==
    [query |-> query, datasetIds |-> datasetIds, isArray |-> isArray,
     outputFormat |-> outputFormat, limit |-> limit]

\* the text SELECT * FROM <id>, and that text with a word before it that is
\* no SQL
SelectFrom(id) == <<"SELECT">> \o Chars(id)
CountFrom(id) == <<"COUNT">> \o Chars(id)
BadSelectFrom(id) == <<"BAD">> \o Chars(id)

Bodies ==
    { Body(SelectFrom("d1"), <<"d1">>, TRUE, "json", NoInt),
      Body(SelectFrom("d1"), <<"d1">>, TRUE, "csv", NoInt),
      Body(SelectFrom("d1"), <<"d1">>, TRUE, "table", NoInt),
      Body(BadSelectFrom("d1"), <<"d1">>, TRUE, "json", NoInt),
      Body(SelectFrom("d3"), <<"d3">>, TRUE, "json", 1),
      Body(SelectFrom("d2"), <<"d2">>, TRUE, "json", NoInt),
      Body(SelectFrom("d2"), <<"d2">>, TRUE, "csv", NoInt),
      Body(SelectFrom("d4"), <<"d4">>, TRUE, "json", NoInt),
      Body(SelectFrom("d1"), <<"d1", "d2">>, TRUE, "json", NoInt),
      Body(<<>>, <<"d1">>, TRUE, "json", NoInt),
      Body(SelectFrom("d1"), <<>>, TRUE, "json", NoInt),
      Body(SelectFrom("d1"), <<>>, FALSE, "json", NoInt),
      Body(SelectFrom("d1"), <<"d1">>, TRUE, "xml", NoInt) }

NoBody == Body(<<>>, <<>>, FALSE, NULL, NoInt)

\* req.user of a request: a user, or NoUser when authMiddleware set none
Callers == Users \cup {NoUser}

OutputFormats == {"json", "csv", "table"}

(***************************************************************************)
(* State.                                                                  *)
(***************************************************************************)
VARIABLES
    manifests,      \* the manifests table: DatasetIds -> manifest or NoManifest
    tempFiles,      \* temp/queries: FileNames -> content or NoFile
    queryDatabase,  \* QueryService.queryDatabase: [open, tables]
    query_results,  \* the query_results table: QueryIds -> row or NoRow
    now,            \* the clock new Date() reads
    calls           \* the calls of QueryController.executeQuery, by process

vars == <<manifests, tempFiles, queryDatabase, query_results, now, calls>>

NoRelation == [name |-> NULL, columns |-> <<>>, rows |-> <<>>]

\* a call that has not started
IdleCall ==
    [pc |-> "idle", user |-> NoUser, body |-> NoBody, j |-> 0, i |-> 0,
     queryResult |-> NoQueryResult, manifest |-> NoManifest, error |-> NULL,
     tableInfos |-> <<>>, rows |-> <<>>,
     http |-> 0, message |-> NULL, data |-> NoQueryResult,
     \* history, for the properties: the ids the ownership loop passed, the
     \* ids handed to downloadFile, the relation the statement read as it
     \* was then, and the message of the engine when it rejected the statement
     verified |-> {}, fetched |-> {}, relation |-> NoRelation, engineError |-> NULL,
     \* and what the ownership loop found when it answered 404: "absent" or
     \* "foreign"
     denial |-> NULL,
     \* and the statement that was prepared
     statement |-> <<>>]

Init ==
    /\ manifests = InitManifests
    /\ tempFiles = [f \in FileNames |-> NoFile]
    /\ queryDatabase = [open |-> FALSE, tables |-> EmptyTables]
    /\ query_results = EmptyStore
    /\ now = 0
    /\ calls = [p \in Procs |-> IdleCall]

(***************************************************************************)
(* POST /execute: QueryController.executeQuery, up to the call of the      *)
(* service.                                                                *)
(***************************************************************************)
QueryIdOf(p) == "q-" \o p

Respond(call, code, message, data) ==
    [call EXCEPT !.pc = "done", !.http = code, !.message = message, !.data = data]

\* a validation that forgets datasetIds.length === 0
ValidateRequestAnyLength(user, body) ==
    IF user = NoUser
    THEN [code |-> 401, message |-> "Authentication required."]
    ELSE IF body.query = <<>> \/ ~body.isArray
    THEN [code |-> 400, message |-> "query and datasetIds are required."]
    ELSE IF body.outputFormat \notin {"json", "csv", "table"}
    THEN [code |-> 400, message |-> "outputFormat must be one of: json, csv, table."]
    ELSE [code |-> 0, message |-> NULL]

\* lines 16-38: the response that ends the request at once, or code 0
ValidateRequest(user, body) ==
    IF user = NoUser
    THEN [code |-> 401, message |-> "Authentication required."]
    ELSE IF body.query = <<>> \/ ~body.isArray \/ body.datasetIds = <<>>
    THEN [code |-> 400, message |-> "query and datasetIds are required."]
    ELSE IF body.outputFormat \notin OutputFormats
    THEN [code |-> 400, message |-> "outputFormat must be one of: json, csv, table."]
    ELSE [code |-> 0, message |-> NULL]

\* a check of line 44 that forgets the owner
NotFoundOnly(manifest, user) == manifest.id = NULL

\* line 44: !manifest || manifest.userId !== req.user.id
NotFoundOrDenied(manifest, user) == manifest.id = NULL \/ manifest.userId # user

\* an answer that tells a dataset of another user from one that does not exist
OwnershipResponseTelling(manifest, user, datasetId) ==
    IF manifest.id = NULL
    THEN [code |-> 404, message |-> "Dataset " \o datasetId \o " not found."]
    ELSE IF manifest.userId # user
    THEN [code |-> 403, message |-> "Dataset " \o datasetId \o ": access denied."]
    ELSE [code |-> 0, message |-> NULL]

\* lines 44-50: the answer to a dataset id the caller may not use, code 0 when
\* the caller owns it
OwnershipResponse(manifest, user, datasetId) ==
    IF NotFoundOrDenied(manifest, user)
    THEN [code |-> 404,
          message |-> "Dataset " \o datasetId \o " not found or access denied."]
    ELSE [code |-> 0, message |-> NULL]

\* a request of one of `callers` with one of `bodies` arrives and is validated
SubmitOf(p, callers, bodies) ==
    /\ calls[p].pc = "idle"
    /\ \E user \in callers, body \in bodies :
        LET checked == ValidateRequest(user, body)
            \* req.body is read only after the check of req.user
            call    == [calls[p] EXCEPT !.user = user,
                                        !.body = IF user = NoUser THEN NoBody ELSE body]
        IN  calls' = [calls EXCEPT ![p] =
                IF checked.code # 0
                THEN Respond(call, checked.code, checked.message, NoQueryResult)
                ELSE [call EXCEPT !.pc = "verify", !.j = 1]]
    /\ UNCHANGED <<manifests, tempFiles, queryDatabase, query_results, now>>

Submit(p) == SubmitOf(p, Callers, Bodies)

\* lines 153-161 of the service: the record of a submission that starts
NewQueryResult(p, user, body, time) ==
    [id |-> QueryIdOf(p), query |-> body.query, datasetIds |-> body.datasetIds,
     outputFormat |-> body.outputFormat, status |-> "executing",
     result |-> Undefined, error |-> NULL, rowCount |-> NoInt,
     columns |-> Undefined, createdAt |-> time, completedAt |-> NULL,
     userId |-> user]

\* the readings new Date() may give at this step
Readings == {t \in {now, now + 1} : t <= MaxTime}

\* one turn of the ownership loop (lines 42-51); after the last id the
\* service is called and stores the record (lines 147-164)
Verify(p) ==
    LET call      == calls[p]
        ids       == call.body.datasetIds
        datasetId == ids[call.j]
        answer    == IF call.j <= Len(ids)
                     THEN OwnershipResponse(getManifestById(manifests, datasetId),
                                            call.user, datasetId)
                     ELSE [code |-> 0, message |-> NULL]
        passed    == IF call.j <= Len(ids)
                     THEN [call EXCEPT !.verified = @ \cup {datasetId}]
                     ELSE call
    IN  /\ call.pc = "verify"
        /\ \E time \in Readings :
            IF answer.code # 0
            THEN /\ time = now
                 /\ calls' = [calls EXCEPT ![p] =
                        Respond([call EXCEPT !.denial =
                                    IF getManifestById(manifests, datasetId).id = NULL
                                    THEN "absent" ELSE "foreign"],
                                answer.code, answer.message, NoQueryResult)]
                 /\ UNCHANGED <<query_results, now>>
            ELSE IF call.j < Len(ids)
            THEN /\ time = now
                 /\ calls' = [calls EXCEPT ![p] = [passed EXCEPT !.j = call.j + 1]]
                 /\ UNCHANGED <<query_results, now>>
            ELSE LET queryResult == NewQueryResult(p, call.user, call.body, time)
                 IN  /\ now' = time
                     /\ query_results' = createQueryResult(query_results, queryResult)
                     /\ calls' = [calls EXCEPT ![p] =
                            [passed EXCEPT !.pc = "init", !.queryResult = queryResult]]
        /\ UNCHANGED <<manifests, tempFiles, queryDatabase>>

(***************************************************************************)
(* QueryService.executeQuery and loadDatasetIntoDatabase.                  *)
(***************************************************************************)
\* a catch block that would see a message of its own instead of the error's
ThrowGeneric(call, message) == [call EXCEPT !.pc = "catch", !.error = "Query failed"]

\* a throw inside the try block: the catch block runs next
Throw(call, message) == [call EXCEPT !.pc = "catch", !.error = message]

\* initQueryDatabase (lines 76-81): the one workspace of the service
initQueryDatabase(db) == [db EXCEPT !.open = TRUE]

\* lines 92-95: loadDatasetIntoDatabase looks up the manifest of the dataset at
\* `index`, whoever owns it, and throws when there is none
Lookup(call, index) ==
    LET datasetId == call.body.datasetIds[index]
        manifest  == getManifestById(manifests, datasetId)
    IN  IF manifest.id = NULL
        THEN Throw(call, "Dataset " \o datasetId \o " not found")
        ELSE [call EXCEPT !.pc = "download", !.i = index, !.manifest = manifest]

\* the loop of lines 172-178 at `index`: the next load, or the query
NextLoad(call, index) ==
    IF index <= Len(call.body.datasetIds)
    THEN Lookup(call, index)
    ELSE [call EXCEPT !.pc = "exec"]

\* lines 166-176: the workspace is initialised and the load of the first
\* dataset starts
InitDb(p) ==
    /\ calls[p].pc = "init"
    /\ queryDatabase' = initQueryDatabase(queryDatabase)
    /\ calls' = [calls EXCEPT ![p] = NextLoad(calls[p], 1)]
    /\ UNCHANGED <<manifests, tempFiles, query_results, now>>

\* AkaveService.downloadFile as the source has it: the object is requested,
\* the call throws when the request fails or has no body, and otherwise
\* resolves without writing localPath
downloadFile(files, s3Key, localPath) ==
    { [ok |-> FALSE, error |-> "Failed to download file.", files |-> files],
      [ok |-> TRUE, error |-> NULL, files |-> files] }

\* the byte-fetch of the storage collaborator: the raw content of the object
\* is at localPath when the call resolves
FetchBytes(files, s3Key, localPath) ==
    { [ok |-> TRUE, error |-> NULL,
       files |-> [files EXCEPT ![localPath] = ObjectContent(s3Key)]] }

\* lines 97-102: the download to temp/queries/<manifest.filename>
Download(p) ==
    LET call == calls[p]
        path == call.manifest.filename
    IN  /\ call.pc = "download"
        /\ \E fetch \in downloadFile(tempFiles, call.manifest.s3Key, path)
                        \cup FetchBytes(tempFiles, call.manifest.s3Key, path) :
              /\ tempFiles' = fetch.files
              /\ calls' = [calls EXCEPT ![p] =
                    IF fetch.ok
                    THEN [call EXCEPT !.pc = "read",
                                      !.fetched = @ \cup {call.manifest.id}]
                    ELSE Throw(call, fetch.error)]
        /\ UNCHANGED <<manifests, queryDatabase, query_results, now>>

NoSuchFile(operation, path) ==
    "ENOENT: no such file or directory, " \o operation \o " '" \o path \o "'"

\* lines 105-136: the temp file is read, parsed and loaded into dataset_i
Read(p) ==
    LET call == calls[p]
        path == call.manifest.filename
        t    == TableNameOf(call.i)
        load == LoadContent(queryDatabase.tables, t, tempFiles[path])
    IN  /\ call.pc = "read"
        /\ IF tempFiles[path] = NoFile
           THEN /\ calls' = [calls EXCEPT ![p] = Throw(call, NoSuchFile("open", path))]
                /\ UNCHANGED queryDatabase
           ELSE /\ queryDatabase' = [queryDatabase EXCEPT !.tables = load.tables]
                /\ calls' = [calls EXCEPT ![p] =
                      IF load.ok
                      THEN [call EXCEPT !.pc = "unlink",
                                        !.tableInfos = Append(@,
                                            [datasetId |-> call.body.datasetIds[call.i],
                                             tableName |-> t,
                                             rowCount  |-> load.rowCount,
                                             columns   |-> load.columns,
                                             inserted  |-> load.inserted])]
                      ELSE Throw(call, load.error)]
        /\ UNCHANGED <<manifests, tempFiles, query_results, now>>

\* lines 139-141 and the loop of lines 172-178: the temp file is removed; the
\* load of the next dataset starts, or the query is next
Unlink(p) ==
    LET call == calls[p]
        path == call.manifest.filename
    IN  /\ call.pc = "unlink"
        /\ IF tempFiles[path] = NoFile
           THEN /\ calls' = [calls EXCEPT ![p] = Throw(call, NoSuchFile("unlink", path))]
                /\ UNCHANGED tempFiles
           ELSE /\ tempFiles' = [tempFiles EXCEPT ![path] = NoFile]
                /\ calls' = [calls EXCEPT ![p] = NextLoad(call, call.i + 1)]
        /\ UNCHANGED <<manifests, queryDatabase, query_results, now>>

\* new Date().toISOString() in a place nothing compares
Stamp == "<date>"

\* a completion that would leave the status as it was
CompletedResultExecuting(queryResult, result, rowCount, columns) ==
    [queryResult EXCEPT !.result = result,
                        !.rowCount = rowCount, !.columns = StringList(columns),
                        !.completedAt = Stamp]

\* lines 229-237: {...queryResult, status: 'completed', ...}
CompletedResult(queryResult, result, rowCount, columns) ==
    [queryResult EXCEPT !.status = "completed", !.result = result,
                        !.rowCount = rowCount, !.columns = StringList(columns),
                        !.completedAt = Stamp]

\* a catch block that would queue the record again
FailedResultPending(queryResult, message, time) ==
    [id |-> queryResult.id, query |-> queryResult.query,
     datasetIds |-> queryResult.datasetIds,
     outputFormat |-> queryResult.outputFormat, status |-> "pending",
     result |-> Undefined, error |-> message, rowCount |-> NoInt,
     columns |-> Undefined, createdAt |-> time, completedAt |-> Stamp,
     userId |-> queryResult.userId]

\* lines 246-257: the record the catch block builds
FailedResult(queryResult, message, time) ==
    [id |-> queryResult.id, query |-> queryResult.query,
     datasetIds |-> queryResult.datasetIds,
     outputFormat |-> queryResult.outputFormat, status |-> "failed",
     result |-> Undefined, error |-> message, rowCount |-> NoInt,
     columns |-> Undefined, createdAt |-> time, completedAt |-> Stamp,
     userId |-> queryResult.userId]

\* lines 180-190: the statement that is prepared
ProcessedQuery(body) ==
    ApplyLimit(RewriteQuery(body.query, body.datasetIds), body.limit)

\* lines 180-240 and lines 60-66 of the controller: the query is rewritten,
\* run and formatted, the record is updated and returned, and the request is
\* answered; a throw of the engine or of the update goes to the catch block
Exec(p) ==
    LET call == calls[p]
        run  == ExecuteStatement(queryDatabase.tables, ProcessedQuery(call.body))
        completed == CompletedResult(call.queryResult,
                        FormatResult(run.columns, run.rows, call.body.outputFormat),
                        Len(run.rows), ResultColumns(run.columns, run.rows))
        update    == updateQueryResult(query_results, call.queryResult.id, completed)
        stmt      == ProcessedQuery(call.body)
        ran       == [call EXCEPT !.rows = run.rows, !.statement = stmt,
                                  !.relation =
                                      [name    |-> StatementTable(stmt),
                                       columns |-> queryDatabase.tables[StatementTable(stmt)].columns,
                                       rows    |-> queryDatabase.tables[StatementTable(stmt)].rows]]
    IN  /\ call.pc = "exec"
        /\ IF ~run.ok
           THEN /\ calls' = [calls EXCEPT ![p] =
                      Throw([call EXCEPT !.engineError = run.error,
                                         !.statement = stmt], run.error)]
                /\ UNCHANGED query_results
           ELSE /\ query_results' = update.rows
                /\ calls' = [calls EXCEPT ![p] =
                      IF update.returned.outcome = "throw"
                      THEN Throw(ran, SyntaxErrorMessage)
                      ELSE Respond(ran, 201, "Query execution started.", completed)]
        /\ UNCHANGED <<manifests, tempFiles, queryDatabase, now>>

\* lines 242-261 and lines 62-73 of the controller: the record is updated as
\* failed and returned with 201; a throw of that update reaches the
\* controller, which answers 500
Catch(p) ==
    LET call == calls[p]
    IN  /\ call.pc = "catch"
        /\ \E time \in Readings :
            LET failed == FailedResult(call.queryResult, call.error, time)
                update == updateQueryResult(query_results, call.queryResult.id, failed)
            IN  /\ now' = time
                /\ query_results' = update.rows
                /\ calls' = [calls EXCEPT ![p] =
                      IF update.returned.outcome = "throw"
                      THEN Respond(call, 500, SyntaxErrorMessage, NoQueryResult)
                      ELSE Respond(call, 201, "Query execution started.", failed)]
        /\ UNCHANGED <<manifests, tempFiles, queryDatabase>>

(***************************************************************************)
(* DELETE /files/:id: FileController.deleteFile removes a manifest of the  *)
(* caller.                                                                 *)
(***************************************************************************)
deleteManifest(table, id) == [table EXCEPT ![id] = NoManifest]

\* the files the DELETE requests of the model name
DeleteIds == {"d1"}

\* lines 130-141 of fileController.ts: the manifest goes when the caller owns
\* it (the request is answered 404, and changes nothing, when not)
DeleteFile ==
    /\ \E user \in Users, id \in DeleteIds :
        /\ ~NotFoundOrDenied(getManifestById(manifests, id), user)
        /\ manifests' = deleteManifest(manifests, id)
    /\ UNCHANGED <<tempFiles, queryDatabase, query_results, now, calls>>

Next ==
    \/ \E p \in Procs : Submit(p)
    \/ \E p \in Procs : Verify(p)
    \/ \E p \in Procs : InitDb(p)
    \/ \E p \in Procs : Download(p)
    \/ \E p \in Procs : Read(p)
    \/ \E p \in Procs : Unlink(p)
    \/ \E p \in Procs : Exec(p)
    \/ \E p \in Procs : Catch(p)
    \/ DeleteFile

Spec == Init /\ [][Next]_vars

(***************************************************************************)
(* One submission alone: user u1 sends one request and nothing else runs.  *)
(***************************************************************************)
\* the requests of the lone submission
SoloBodies ==
    { Body(SelectFrom("d3"), <<"d3">>, TRUE, "csv", 1),
      Body(SelectFrom("d3"), <<"d3">>, TRUE, "json", 1),
      Body(SelectFrom("d3"), <<"d3">>, TRUE, "json", 0),
      Body(SelectFrom("d3") \o <<"LIMIT", "2">>, <<"d3">>, TRUE, "json", 1),
      Body(SelectFrom("d5"), <<"d5">>, TRUE, "table", NoInt),
      Body(SelectFrom("d5"), <<"d5">>, TRUE, "csv", NoInt),
      Body(SelectFrom("d1"), <<"d1">>, TRUE, "table", NoInt),
      Body(SelectFrom("d1"), <<"d1">>, TRUE, "json", NoInt),
      Body(SelectFrom("d6"), <<"d6">>, TRUE, "json", NoInt),
      Body(BadSelectFrom("d1"), <<"d1">>, TRUE, "json", NoInt),
      Body(SelectFrom("d3"), <<"d1", "d3">>, TRUE, "json", NoInt),
      Body(CountFrom("d5"), <<"d5">>, TRUE, "csv", NoInt),
      Body(CountFrom("d3"), <<"d3">>, TRUE, "csv", NoInt) }

SubmitSolo == SubmitOf("p1", {"u1"}, SoloBodies)

SoloNext ==
    \/ SubmitSolo
    \/ Verify("p1")
    \/ InitDb("p1")
    \/ Download("p1")
    \/ Read("p1")
    \/ Unlink("p1")
    \/ Exec("p1")
    \/ Catch("p1")

SoloSpec == Init /\ [][SoloNext]_vars

(***************************************************************************)
(* The handlers that only read: QueryController.getQueryResult,            *)
(* listQueryResults and getDatasetSchema, as the responses they give in a  *)
(* state.                                                                  *)
(***************************************************************************)
Response(code, message, data) == [code |-> code, message |-> message, data |-> data]

\* GET /results/:id
GetQueryResultResponse(rows, user, id) ==
    IF user = NoUser
    THEN Response(401, "Authentication required.", NoQueryResult)
    ELSE LET result == getQueryResult(rows, id, user)
         IN  IF result.outcome = "throw"
             THEN Response(500, "Failed to retrieve query result.", NoQueryResult)
             ELSE IF result.outcome = "null"
             THEN Response(404, "Query result not found or access denied.", NoQueryResult)
             ELSE Response(200, NULL, result.record)

\* QueryService.getDatasetSchema: the placeholder
DatasetSchema == [columns |-> <<>>, rowCount |-> 0, fileType |-> "unknown"]

\* GET /datasets/:id/schema
GetDatasetSchemaResponse(table, user, id) ==
    IF user = NoUser
    THEN Response(401, "Authentication required.", NoQueryResult)
    ELSE IF NotFoundOrDenied(getManifestById(table, id), user)
    THEN Response(404, "Dataset not found or access denied.", NoQueryResult)
    ELSE Response(200, NULL, DatasetSchema)

\* the texts of ?limit= and ?offset= in the model, "" for a parameter that is
\* absent, and the numbers parseInt(text, 10) reads in them (NaN for the
\* others)
ParamTexts == {"", "x", "-1", "0", "1"}
ParsedInts == [t \in {"-1", "0", "1"} |->
                 IF t = "-1" THEN 0 - 1 ELSE IF t = "0" THEN 0 ELSE 1]

\* parseInt(text, 10) || default: NaN and 0 are falsy
ParseIntOr(text, default) ==
    IF text \in DOMAIN ParsedInts /\ ParsedInts[text] # 0
    THEN ParsedInts[text] ELSE default

DefaultLimit == 10

\* GET /results?limit=&offset=: the responses the handler may give
ListQueryResultsResponse(rows, user, limitText, offsetText) ==
    IF user = NoUser
    THEN {Response(401, "Authentication required.", <<>>)}
    ELSE {IF results.outcome = "throw"
          THEN Response(500, "Failed to retrieve query results.", <<>>)
          ELSE Response(200, NULL, results.records)
          : results \in listQueryResults(rows, user,
                            ParseIntOr(limitText, DefaultLimit),
                            ParseIntOr(offsetText, 0))}

(***************************************************************************)
(* Properties.                                                             *)
(***************************************************************************)
Terminal == {"completed", "failed"}

\* the calls that have an answer
Answered(p) == calls[p].pc = "done"

OwnerIds == Users \cup {NoUser}

\* C4: getQueryResult(id, ownerId) gives the record only when ownerId is the
\* userId of the record, and null for every other ownerId a caller can pass.
C4_LookupOnlyByOwner ==
    \A id \in QueryIds, ownerId \in OwnerIds :
        (query_results[id].id # NULL /\ query_results[id].userId # ownerId)
            => getQueryResult(query_results, id, ownerId) = ReturnedNull

\* the limits and offsets GET /results can hand to listQueryResults
ListLimits == {ParseIntOr(t, DefaultLimit) : t \in ParamTexts}
ListOffsets == {ParseIntOr(t, 0) : t \in ParamTexts}

\* what listQueryResults(u, limit, offset) gives holds only records of u, and
\* when `bounded` no more of them than the limit allows (a limit below zero
\* allows none)
ListingHonours(u, limit, offset, bounded) ==
    \A results \in listQueryResults(query_results, u, limit, offset) :
        /\ \A k \in 1..Len(results.records) : results.records[k].userId = u
        /\ bounded => Len(results.records) <= (IF limit < 0 THEN 0 ELSE limit)

\* the catalogue of u holds only manifests of u
CatalogueOnlyOwn ==
    \A u \in OwnerIds :
        \A dataset \in getStructuredDatasets(manifests, u) : dataset.userId = u

\* C5 as it is stated: listQueryResults(u, limit, offset) returns only
\* records of u, and at most limit of them, whatever the limit; the catalogue
\* of u holds only manifests of u.
C5_ListOnlyOwnAtMostLimit ==
    /\ CatalogueOnlyOwn
    /\ \A u \in OwnerIds, limit \in ListLimits, offset \in ListOffsets :
          ListingHonours(u, limit, offset, TRUE)

\* C5, amended: listQueryResults(u, limit, offset) returns only records of u,
\* and at most limit of them when limit is not negative (a negative limit is
\* no limit); the catalogue of u holds only manifests of u.
C5_ListOnlyOwnAtMostLimitIfAny ==
    /\ CatalogueOnlyOwn
    /\ \A u \in OwnerIds, limit \in ListLimits, offset \in ListOffsets :
          ListingHonours(u, limit, offset, limit >= 0)

\* both users have a record and a dataset, and the listing of one of them
\* gives one record
C5_Witness ==
    /\ \A u \in Users : \E id \in QueryIds : query_results[id].userId = u
    /\ \A u \in Users : \E d \in DatasetIds : manifests[d].userId = u
    /\ \E u \in Users :
          \E results \in listQueryResults(query_results, u, DefaultLimit, 0) :
              results.outcome = "records" /\ Len(results.records) = 1

\* the calls that passed the validation and the ownership loop: the service
\* was called and stored a record
Accepted(p) == calls[p].queryResult.id # NULL

OwnsAll(p) ==
    \A k \in 1..Len(calls[p].body.datasetIds) :
        LET manifest == getManifestById(InitManifests, calls[p].body.datasetIds[k])
        IN  manifest.id # NULL /\ manifest.userId = calls[p].user

\* the call left nothing behind: no record, no fetch, no load
NoEffects(p) ==
    /\ calls[p].queryResult = NoQueryResult
    /\ query_results[QueryIdOf(p)] = NoRow
    /\ calls[p].fetched = {}
    /\ calls[p].tableInfos = <<>>

InvalidShape(body) ==
    \/ body.query = <<>>
    \/ ~body.isArray
    \/ body.datasetIds = <<>>
    \/ body.outputFormat \notin {"json", "csv", "table"}

WithoutDataset(d) == deleteManifest(manifests, d)
WithDatasetOf(d, other) ==
    IF manifests[d].id # NULL /\ manifests[d].userId = other
    THEN manifests
    ELSE [manifests EXCEPT ![d] = Manifest(d, "b.csv", other, "k3")]

\* the records with record id absent, and with id the id of a record r
WithoutRecord(id) == [query_results EXCEPT ![id] = NoRow]
WithRecord(id, r) == [query_results EXCEPT ![id] = [r EXCEPT !.id = id]]

\* the rows of the store that are not of `user`
RecordsOfOthers(user) ==
    {query_results[id] : id \in {x \in QueryIds : /\ query_results[x].id # NULL
                                                 /\ query_results[x].userId # user}}

\* C10: a caller cannot tell a dataset or a record that does not exist from
\* one of another user.  In two states that differ only in whether a dataset
\* id is absent or belongs to another user, the ownership loop of a
\* submission and the schema request answer alike, code and body; in two
\* states that differ only in whether a record id is absent or belongs to
\* another user, the result lookup answers alike; and two equal submissions
\* that were refused at the same dataset got the same answer, whatever the
\* ownership loop had found.
C10_AbsentLikeForeign ==
    /\ \A user \in Users, d \in DatasetIds :
        \A other \in Users \ {user} :
          /\ OwnershipResponse(getManifestById(WithoutDataset(d), d), user, d)
               = OwnershipResponse(getManifestById(WithDatasetOf(d, other), d), user, d)
          /\ GetDatasetSchemaResponse(WithoutDataset(d), user, d)
               = GetDatasetSchemaResponse(WithDatasetOf(d, other), user, d)
    /\ \A user \in Users, id \in QueryIds :
          \A r \in RecordsOfOthers(user) :
              GetQueryResultResponse(WithoutRecord(id), user, id)
                = GetQueryResultResponse(WithRecord(id, r), user, id)
    /\ \A p, q \in Procs :
          ( /\ calls[p].denial # NULL /\ calls[q].denial # NULL
            /\ calls[p].user = calls[q].user
            /\ calls[p].body = calls[q].body
            /\ calls[p].j = calls[q].j )
              => /\ calls[p].http = calls[q].http
                 /\ calls[p].message = calls[q].message
                 /\ calls[p].data = calls[q].data

\* the same submission was refused twice, once for a dataset of another user
\* and once for a dataset that did not exist
C10_Witness ==
    \E p, q \in Procs :
        /\ calls[p].denial = "absent"
        /\ calls[q].denial = "foreign"
        /\ calls[p].user = calls[q].user
        /\ calls[p].body = calls[q].body

\* the stored record of the submission of p
StoredRecord(p) == query_results[QueryIdOf(p)]

\* the call of p ran its statement and has its answer
RanStatement(p) == Answered(p) /\ calls[p].relation.name # NULL

LoaderHeaders == { <<"a">>, <<"a", "b">>, <<"b-c", "b_c">> }
LoaderLines == { <<"x">>, <<"x", "y">>, <<"x", "y", "z">>, <<"\"y1\"">> }
MaxDataLines == 2

\* the empty text, and a header line followed by at most MaxDataLines data
\* lines
LoaderContents ==
    { << >> } \cup
    { <<h>> \o body : h \in LoaderHeaders,
                      body \in UNION { [1..n -> LoaderLines] : n \in 0..MaxDataLines } }

\* the workspace the call finds: new, or holding the dataset_1 that an
\* earlier submission over d1 left
LoaderWorkspaces ==
    { EmptyTables,
      [EmptyTables EXCEPT !["dataset_1"] =
          [exists |-> TRUE, columns |-> <<"a">>, rows |-> << <<"x1">> >>]] }

\* the submission whose load is followed
LoaderBody == Body(SelectFrom("d1"), <<"d1">>, TRUE, "json", NoInt)
LoaderRecord == NewQueryResult("p1", "u1", LoaderBody, 0)

LoaderInit ==
    /\ manifests = InitManifests
    /\ \E content \in LoaderContents :
          tempFiles = [f \in FileNames |-> IF f = "a.csv" THEN content ELSE NoFile]
    /\ \E tables \in LoaderWorkspaces :
          queryDatabase = [open |-> TRUE, tables |-> tables]
    /\ query_results = createQueryResult(EmptyStore, LoaderRecord)
    /\ now = 0
    /\ calls = [p \in Procs |->
          IF p = "p1"
          THEN [IdleCall EXCEPT !.pc = "read", !.user = "u1", !.body = LoaderBody,
                                !.j = 1, !.i = 1, !.queryResult = LoaderRecord,
                                !.manifest = InitManifests["d1"],
                                !.verified = {"d1"}, !.fetched = {"d1"}]
          ELSE IdleCall]

LoaderNext ==
    \/ Read("p1")
    \/ Unlink("p1")

LoaderSpec == LoaderInit /\ [][LoaderNext]_vars

\* the data lines of a dataset text whose field count is that of the header
WellFormedLines(content) ==
    {k \in 2..Len(content) : Len(content[k]) = Len(content[1])}

BinderIdLists ==
    { <<"d1">>, <<"d3">>, <<"d1", "d3">>, <<"d3", "d1">>, <<"d1", "d1">> }

\* the query texts: `SELECT * FROM `, at most MaxQueryAtoms characters of the
\* ids, and possibly a clause or a word in which `limit` occurs
MaxQueryAtoms == 2
BinderAtoms == {"d", "1", "3"}
BinderSuffixes == { <<>>, <<"LIMIT", "1">>, <<"limit", "1">> }
BinderQueries ==
    { (<<"SELECT">> \o middle) \o suffix :
        middle \in UNION { [1..n -> BinderAtoms] : n \in 1..MaxQueryAtoms },
        suffix \in BinderSuffixes }

\* request.limit: absent, or a number
BinderLimits == {NoInt, 0, 1, 2}

\* the workspace after the datasets ids[index..] were loaded, one after the
\* other, into `tables`
RECURSIVE LoadedTables(_, _, _)
LoadedTables(tables, ids, index) ==
    IF index > Len(ids)
    THEN tables
    ELSE LoadedTables(
            LoadContent(tables, TableNameOf(index),
                        ObjectContent(InitManifests[ids[index]].s3Key)).tables,
            ids, index + 1)

\* what the load of ids[k] returned
LoadOf(ids, k) ==
    LoadContent(LoadedTables(EmptyTables, Prefix(ids, k - 1), 1), TableNameOf(k),
                ObjectContent(InitManifests[ids[k]].s3Key))

LoadedInfos(ids) ==
    [k \in 1..Len(ids) |->
        [datasetId |-> ids[k], tableName |-> TableNameOf(k),
         rowCount  |-> LoadOf(ids, k).rowCount,
         columns   |-> LoadOf(ids, k).columns,
         inserted  |-> LoadOf(ids, k).inserted]]

BinderInit ==
    \E query \in BinderQueries, ids \in BinderIdLists, limit \in BinderLimits :
        LET body   == Body(query, ids, TRUE, "json", limit)
            record == NewQueryResult("p1", "u1", body, 0)
        IN  /\ manifests = InitManifests
            /\ tempFiles = [f \in FileNames |-> NoFile]
            /\ queryDatabase = [open |-> TRUE,
                                tables |-> LoadedTables(EmptyTables, ids, 1)]
            /\ query_results = createQueryResult(EmptyStore, record)
            /\ now = 0
            /\ calls = [p \in Procs |->
                  IF p = "p1"
                  THEN [IdleCall EXCEPT !.pc = "exec", !.user = "u1", !.body = body,
                                        !.j = Len(ids), !.i = Len(ids),
                                        !.queryResult = record,
                                        !.manifest = InitManifests[ids[Len(ids)]],
                                        !.tableInfos = LoadedInfos(ids),
                                        !.verified = Range(ids), !.fetched = Range(ids)]
                  ELSE IdleCall]

BinderNext ==
    \/ Exec("p1")
    \/ Catch("p1")

BinderSpec == BinderInit /\ [][BinderNext]_vars

\* `pattern` occurs somewhere in `text`
Occurs(text, pattern) == \E k \in 1..Len(text) : OccursAt(text, k, pattern)

CancelIds == QueryIds \cup {"q-none"}

\* a handler that would cancel the caller's record when it is executing
cancelQueryMarking(rows, user, id) ==
    IF user = NoUser
    THEN [response |-> Response(401, "Authentication required.", NoQueryResult),
          rows |-> rows]
    ELSE IF id \in QueryIds /\ rows[id].userId = user /\ rows[id].status = "executing"
    THEN [response |-> Response(200, "Query cancelled.", NoQueryResult),
          rows |-> [rows EXCEPT ![id].status = "failed"]]
    ELSE [response |-> Response(400, "Query cancellation not implemented.", NoQueryResult),
          rows |-> rows]

\* lines 145-155: 401 without a user, else 400; no service is called
cancelQuery(rows, user, id) ==
    IF user = NoUser
    THEN [response |-> Response(401, "Authentication required.", NoQueryResult),
          rows |-> rows]
    ELSE [response |-> Response(400, "Query cancellation not implemented.", NoQueryResult),
          rows |-> rows]

\* C15: every authenticated POST /cancel/:id, whatever the id and the status
\* of the record, is answered with the error `not implemented`, never with a
\* success, and leaves every record as it was.
C15_CancelNotImplemented ==
    \A user \in Users, id \in CancelIds :
        LET out == cancelQuery(query_results, user, id)
        IN  /\ out.response.code = 400
            /\ out.response.message = "Query cancellation not implemented."
            /\ out.rows = query_results

\* a caller has a record that is executing while another record is terminal
C15_Witness ==
    \E user \in Users, id \in QueryIds, other \in QueryIds :
        /\ query_results[id].userId = user
        /\ query_results[id].status = "executing"
        /\ query_results[other].status \in Terminal

RECURSIVE ExactRewrite(_, _, _)
ExactRewrite(query, rewritten, ids) ==
    IF query = <<>>
    THEN rewritten = <<>>
    ELSE LET hits == {k \in 1..Len(ids) : OccursAt(query, 1, Chars(ids[k]))}
         IN  IF hits = {}
             THEN /\ rewritten # <<>>
                  /\ Head(rewritten) = Head(query)
                  /\ ExactRewrite(Tail(query), Tail(rewritten), ids)
             ELSE \A k \in hits :
                    LET id   == Chars(ids[k])
                        name == Chars(TableNameOf(k))
                    IN  /\ OccursAt(rewritten, 1, name)
                        /\ ExactRewrite(SubSeq(query, Len(id) + 1, Len(query)),
                                        SubSeq(rewritten, Len(name) + 1, Len(rewritten)),
                                        ids)

\* the statement without the clause the row cap appended
WithoutAppended(stmt, body) ==
    IF /\ Len(stmt) = Len(body.query) + 2
       /\ stmt[Len(stmt) - 1] = "LIMIT"
    THEN SubSeq(stmt, 1, Len(stmt) - 2)
    ELSE stmt

FieldAsReturned(value) ==
    "\"" \o (IF value = NULL THEN "" ELSE TemplateText(value)) \o "\""

LoadFailed(p) ==
    /\ Answered(p)
    /\ Accepted(p)
    /\ calls[p].error # NULL
    /\ calls[p].statement = <<>>

HistoryBodies ==
    { Body(SelectFrom("d1"), <<"d1">>, TRUE, "json", NoInt),
      Body(BadSelectFrom("d1"), <<"d1">>, TRUE, "json", NoInt) }

HistoryInit ==
    \E body \in HistoryBodies :
        LET record == NewQueryResult("p1", "u1", body, 0 - 1)
        IN  /\ manifests = InitManifests
            /\ tempFiles = [f \in FileNames |-> NoFile]
            /\ queryDatabase = [open |-> FALSE, tables |-> EmptyTables]
            /\ query_results = createQueryResult(EmptyStore, record)
            /\ now = 0
            /\ calls = [p \in Procs |->
                  IF p = "p1"
                  THEN [IdleCall EXCEPT !.pc = "init", !.user = "u1", !.body = body,
                                        !.j = 1, !.queryResult = record,
                                        !.verified = {"d1"}]
                  ELSE IdleCall]

SubmitLater == SubmitOf("p2", {"u1"}, HistoryBodies)

HistoryNext ==
    \/ SubmitLater
    \/ Verify("p2")
    \/ \E p \in Procs :
          \/ InitDb(p)
          \/ Download(p)
          \/ Read(p)
          \/ Unlink(p)
          \/ Exec(p)
          \/ Catch(p)

HistorySpec == HistoryInit /\ [][HistoryNext]_vars

\* when the submission of p was created: the createdAt of the record that
\* executeQuery built at its start
CreatedAt(p) == calls[p].queryResult.createdAt

\* id `first` comes before id `second` in the listing s
Before(s, first, second) ==
    \E a, b \in 1..Len(s) : a < b /\ s[a] = first /\ s[b] = second

\* C25: of two records of the same owner, the one whose submission was
\* created later comes first in listQueryResults, whatever the status of
\* either and whichever execution finished first.  Rows of equal createdAt
\* are taken in the order that agrees with this.
C25_HistoryNewestFirstByCreation ==
    \A earlier, later \in Procs :
        ( /\ Accepted(earlier)
          /\ Accepted(later)
          /\ calls[earlier].user = calls[later].user
          /\ CreatedAt(earlier) < CreatedAt(later) )
            => \E s \in NewestFirst(query_results, calls[later].user) :
                  Before(s, QueryIdOf(later), QueryIdOf(earlier))

\* executeQuery has returned a record to the controller, which answered 201
ReturnedRecord(p) == Answered(p) /\ calls[p].http = 201

====
